---- MODULE Spec2Model ----
(***************************************************************************)
(* A model of ros2-porting-heuristics.py: the line plugins (detectors),    *)
(* and main(): the walk over the packages, the manifest loop, the filters, *)
(* the per-file scans, the score, the size bucket and the report.          *)
(*                                                                         *)
(* Lines, names and report rows are strings; the regular expressions are   *)
(* searched in the bytes of each line, as re.search does.                  *)
(***************************************************************************)
EXTENDS Integers, Sequences, FiniteSets, TLC

VARIABLES
  args,            \* argparse result: [exclusive, exclude], the two lists
  package_paths,   \* directories that hold a package.xml (os.walk)
  package_i,       \* position of `for package_path in package_paths`
  pc,              \* position of main() inside the loop body
  name,            \* None or the package name
  catkin_ignore,
  build_depends,
  exec_depends,
  depends,         \* set of dependency texts
  tree,            \* the manifest: the children of its root element
  child_i,         \* position of the loop over those children
  files,           \* pygount's report: the children of /results/files
  cpp_files,
  cpp_lines,
  py_files,
  py_lines,
  launch_files,
  msg_files,
  score,
  size,
  file_i,          \* position of the `for ..._file in ..._files` loops
  plugins,         \* the plugin list of the file being scanned
  infp,            \* the lines of the last opened file
  line_i,          \* position of the loop over those lines
  penalties,       \* what the finish calls of the last scanned file returned
  packages,        \* the rows
  stdout,          \* everything printed
  parsed,          \* history: the manifests parsed so far, one per package
  scanned,         \* history: the files of this package finished so far
  objs,            \* the identities of the objects in plugins
  allocated,       \* the number of plugin objects constructed so far
  calls            \* history: the calls on plugin objects in this package

vars == << args, package_paths, package_i, pc, name, catkin_ignore,
           build_depends, exec_depends, depends, tree, child_i, cpp_files,
           cpp_lines, py_files, py_lines, launch_files, msg_files, score, size,
           file_i, plugins, infp, line_i, penalties, packages, stdout, files,
           parsed, scanned, objs, allocated, calls >>

-----------------------------------------------------------------------------
(* Python values *)

\* None is the empty tuple, a present text t is <<t>>.
None == << >>

Some(t) == << t >>

-----------------------------------------------------------------------------
(* bytes and re.search *)

Char(s, i) == SubSeq(s, i, i)

\* re.search of a pattern without metacharacters: the pattern occurs in line.
Search(pat, line) ==
  \E i \in 1..(Len(line) - Len(pat) + 1) : SubSeq(line, i, i + Len(pat) - 1) = pat

UpperCase == "ABCDEFGHIJKLMNOPQRSTUVWXYZ"

LowerCase == "abcdefghijklmnopqrstuvwxyz"

lower_char(c) ==
  IF \E i \in 1..Len(UpperCase) : Char(UpperCase, i) = c
  THEN Char(LowerCase, CHOOSE i \in 1..Len(UpperCase) : Char(UpperCase, i) = c)
  ELSE c

RECURSIVE lower(_)
lower(s) ==
  IF Len(s) = 0 THEN "" ELSE lower_char(Char(s, 1)) \o lower(SubSeq(s, 2, Len(s)))

\* re.search with re.IGNORECASE of a pattern without metacharacters.
SearchIgnoreCase(pat, line) == Search(lower(pat), lower(line))

\* re.search of `a.*b` with re.IGNORECASE: a, then any bytes but a newline,
\* then b.
SearchGapIgnoreCase(a, b, line) ==
  LET l == lower(line)
      la == lower(a)
      lb == lower(b)
  IN \E i \in 1..(Len(l) - Len(la) + 1) :
       /\ SubSeq(l, i, i + Len(la) - 1) = la
       /\ \E j \in (i + Len(la))..(Len(l) - Len(lb) + 1) :
            /\ SubSeq(l, j, j + Len(lb) - 1) = lb
            /\ \A k \in (i + Len(la))..(j - 1) : Char(l, k) # "\n"

\* re.search of `pat$`: pat ends the line, or ends it before a final newline.
SearchAtEnd(pat, line) ==
  \E i \in 1..(Len(line) - Len(pat) + 1) :
    /\ SubSeq(line, i, i + Len(pat) - 1) = pat
    /\ \/ i + Len(pat) - 1 = Len(line)
       \/ i + Len(pat) = Len(line) /\ Char(line, Len(line)) = "\n"

roscpp_using_re(line) == Search("using namespace ros", line)

roscpp_namespace_re(line) == Search("ros::", line)

tf_using_re(line) == Search("tf::", line)

tf2_using_re(line) == Search("tf2_ros::", line)

dynamic_reconfigure_re(line) == Search("dynamic_reconfigure::", line)

cpp_action_server_re(line) == SearchGapIgnoreCase("actionlib::", "Server", line)

rospy_re(line) == Search("rospy", line)

tf_import_re(line) == SearchAtEnd("import tf", line)

tf_conversions_import_re(line) == Search("from tf_conversions import", line)

py_action_server_re(line) == SearchGapIgnoreCase("actionlib", "Server", line)

launch_test_re(line) == SearchIgnoreCase("<test", line)

-----------------------------------------------------------------------------
(* divide_round_up and File *)

\* A variant with the sign of the rounding term slipped.
divide_round_up_minus(n, d) == (n - (d - 1)) \div d

divide_round_up(n, d) == (n + (d - 1)) \div d

File(file_name, lines) == [name |-> file_name, lines |-> lines]

-----------------------------------------------------------------------------
(* The line plugins.  A plugin is a record of its class and its slots;     *)
(* line_cb returns the plugin after the call, finish returns the penalty.  *)

RosCPPFileLinePlugin == [cls |-> "RosCPPFileLinePlugin", rosfile |-> FALSE]

RosCPPFileLinePlugin_line_cb(self, line) ==
  IF self.rosfile THEN self
  ELSE IF roscpp_using_re(line) THEN [self EXCEPT !.rosfile = TRUE]
  ELSE IF roscpp_namespace_re(line) THEN [self EXCEPT !.rosfile = TRUE]
  ELSE self

\* A variant that rounds down.
RosCPPFileLinePlugin_finish_floor(self, f) ==
  IF ~self.rosfile THEN 0 ELSE f.lines \div 1000

RosCPPFileLinePlugin_finish(self, f) ==
  IF ~self.rosfile THEN 0 ELSE divide_round_up(f.lines, 1000)

RosCPPUsingTFLinePlugin ==
  [cls |-> "RosCPPUsingTFLinePlugin", uses_tf |-> FALSE, uses_tf2_ros |-> FALSE]

RosCPPUsingTFLinePlugin_line_cb(self, line) ==
  IF self.uses_tf /\ self.uses_tf2_ros THEN self
  ELSE IF tf_using_re(line) THEN [self EXCEPT !.uses_tf = TRUE]
  ELSE IF tf2_using_re(line) THEN [self EXCEPT !.uses_tf2_ros = TRUE]
  ELSE self

RosCPPUsingTFLinePlugin_finish(self, f) ==
  IF ~self.uses_tf THEN 0
  ELSE IF self.uses_tf2_ros THEN 0
  ELSE 2

RosCPPUsingDynamicReconfigurePlugin ==
  [cls |-> "RosCPPUsingDynamicReconfigurePlugin", uses_dynamic_reconfigure |-> FALSE]

\* A variant that assigns the flag from the line at hand.
RosCPPUsingDynamicReconfigurePlugin_line_cb_assign(self, line) ==
  [self EXCEPT !.uses_dynamic_reconfigure = dynamic_reconfigure_re(line)]

RosCPPUsingDynamicReconfigurePlugin_line_cb(self, line) ==
  IF self.uses_dynamic_reconfigure THEN self
  ELSE IF dynamic_reconfigure_re(line)
       THEN [self EXCEPT !.uses_dynamic_reconfigure = TRUE]
  ELSE self

RosCPPUsingDynamicReconfigurePlugin_finish(self, f) ==
  IF ~self.uses_dynamic_reconfigure THEN 0 ELSE 2

RosCPPActionServerPlugin ==
  [cls |-> "RosCPPActionServerPlugin", uses_action_server |-> FALSE]

RosCPPActionServerPlugin_line_cb(self, line) ==
  IF self.uses_action_server THEN self
  ELSE IF cpp_action_server_re(line) THEN [self EXCEPT !.uses_action_server = TRUE]
  ELSE self

RosCPPActionServerPlugin_finish(self, f) ==
  IF ~self.uses_action_server THEN 0 ELSE 2

RosPyFileLinePlugin == [cls |-> "RosPyFileLinePlugin", rosfile |-> FALSE]

RosPyFileLinePlugin_line_cb(self, line) ==
  IF self.rosfile THEN self
  ELSE IF rospy_re(line) THEN [self EXCEPT !.rosfile = TRUE]
  ELSE self

\* A variant that counts a scripting file as a native file is counted.
RosPyFileLinePlugin_finish_as_native(self, f) ==
  IF ~self.rosfile THEN 0 ELSE divide_round_up(f.lines, 1000)

\* A variant that does not look at the flag.
RosPyFileLinePlugin_finish_unflagged(self, f) ==
  divide_round_up(f.lines, 500)

RosPyFileLinePlugin_finish(self, f) ==
  IF ~self.rosfile THEN 0 ELSE divide_round_up(f.lines, 500)

RosPyUsingTFLinePlugin == [cls |-> "RosPyUsingTFLinePlugin", uses_tf |-> FALSE]

RosPyUsingTFLinePlugin_line_cb(self, line) ==
  IF self.uses_tf THEN self
  ELSE IF tf_import_re(line) THEN [self EXCEPT !.uses_tf = TRUE]
  ELSE IF tf_conversions_import_re(line) THEN [self EXCEPT !.uses_tf = TRUE]
  ELSE self

RosPyUsingTFLinePlugin_finish(self, f) ==
  IF ~self.uses_tf THEN 0 ELSE 2

RosPyActionServerLinePlugin ==
  [cls |-> "RosPyActionServerLinePlugin", uses_action_server |-> FALSE]

RosPyActionServerLinePlugin_line_cb(self, line) ==
  IF self.uses_action_server THEN self
  ELSE IF py_action_server_re(line) THEN [self EXCEPT !.uses_action_server = TRUE]
  ELSE self

RosPyActionServerLinePlugin_finish(self, f) ==
  IF ~self.uses_action_server THEN 0 ELSE 2

RosLaunchTestLinePlugin == [cls |-> "RosLaunchTestLinePlugin", uses_rostest |-> FALSE]

RosLaunchTestLinePlugin_line_cb(self, line) ==
  IF self.uses_rostest THEN self
  ELSE IF launch_test_re(line) THEN [self EXCEPT !.uses_rostest = TRUE]
  ELSE self

RosLaunchTestLinePlugin_finish(self, f) ==
  IF ~self.uses_rostest THEN 0 ELSE 1

\* plugin.line_cb(line): the call goes to the method of the plugin's class.
line_cb(self, line) ==
  CASE self.cls = "RosCPPFileLinePlugin" -> RosCPPFileLinePlugin_line_cb(self, line)
    [] self.cls = "RosCPPUsingTFLinePlugin" -> RosCPPUsingTFLinePlugin_line_cb(self, line)
    [] self.cls = "RosCPPUsingDynamicReconfigurePlugin" ->
         RosCPPUsingDynamicReconfigurePlugin_line_cb(self, line)
    [] self.cls = "RosCPPActionServerPlugin" -> RosCPPActionServerPlugin_line_cb(self, line)
    [] self.cls = "RosPyFileLinePlugin" -> RosPyFileLinePlugin_line_cb(self, line)
    [] self.cls = "RosPyUsingTFLinePlugin" -> RosPyUsingTFLinePlugin_line_cb(self, line)
    [] self.cls = "RosPyActionServerLinePlugin" ->
         RosPyActionServerLinePlugin_line_cb(self, line)
    [] self.cls = "RosLaunchTestLinePlugin" -> RosLaunchTestLinePlugin_line_cb(self, line)

\* plugin.finish(f)
finish(self, f) ==
  CASE self.cls = "RosCPPFileLinePlugin" -> RosCPPFileLinePlugin_finish(self, f)
    [] self.cls = "RosCPPUsingTFLinePlugin" -> RosCPPUsingTFLinePlugin_finish(self, f)
    [] self.cls = "RosCPPUsingDynamicReconfigurePlugin" ->
         RosCPPUsingDynamicReconfigurePlugin_finish(self, f)
    [] self.cls = "RosCPPActionServerPlugin" -> RosCPPActionServerPlugin_finish(self, f)
    [] self.cls = "RosPyFileLinePlugin" -> RosPyFileLinePlugin_finish(self, f)
    [] self.cls = "RosPyUsingTFLinePlugin" -> RosPyUsingTFLinePlugin_finish(self, f)
    [] self.cls = "RosPyActionServerLinePlugin" -> RosPyActionServerLinePlugin_finish(self, f)
    [] self.cls = "RosLaunchTestLinePlugin" -> RosLaunchTestLinePlugin_finish(self, f)

-----------------------------------------------------------------------------
(* int(), "%d", sorted() *)

Digits == "0123456789"

digit(c) == (CHOOSE i \in 1..Len(Digits) : Char(Digits, i) = c) - 1

\* int(s) of a string of decimal digits, as pygount writes the code count.
RECURSIVE int(_)
int(s) ==
  IF Len(s) = 0 THEN 0
  ELSE 10 * int(SubSeq(s, 1, Len(s) - 1)) + digit(Char(s, Len(s)))

\* The printable ASCII characters in code order: 32 (space) to 95, and 97
\* to 126 (96, the backquote, is left out: no name or row here holds one).
AsciiLow ==
  " !\"#$%&'()*+,-./0123456789:;<=>?@ABCDEFGHIJKLMNOPQRSTUVWXYZ[\\]^_"

AsciiHigh == "abcdefghijklmnopqrstuvwxyz{|}~"

ord(c) ==
  IF \E i \in 1..Len(AsciiLow) : Char(AsciiLow, i) = c
  THEN 31 + (CHOOSE i \in 1..Len(AsciiLow) : Char(AsciiLow, i) = c)
  ELSE 96 + (CHOOSE i \in 1..Len(AsciiHigh) : Char(AsciiHigh, i) = c)

\* a < b on str: by code point, a proper prefix first.
RECURSIVE str_lt(_, _)
str_lt(a, b) ==
  IF Len(b) = 0 THEN FALSE
  ELSE IF Len(a) = 0 THEN TRUE
  ELSE IF Char(a, 1) = Char(b, 1)
       THEN str_lt(SubSeq(a, 2, Len(a)), SubSeq(b, 2, Len(b)))
  ELSE ord(Char(a, 1)) < ord(Char(b, 1))

\* s inserted into the sorted list l, after the elements that are not greater.
RECURSIVE insort(_, _)
insort(l, s) ==
  IF Len(l) = 0 THEN << s >>
  ELSE IF str_lt(s, Head(l)) THEN << s >> \o l
  ELSE << Head(l) >> \o insort(Tail(l), s)

\* A variant that leaves the rows in the order they were appended.
sorted_as_appended(l) == l

\* A variant that sorts the distinct elements of l.
RECURSIVE sorted_set(_)
sorted_set(l) ==
  IF Len(l) = 0 THEN << >>
  ELSE LET rest == sorted_set(SubSeq(l, 1, Len(l) - 1))
       IN IF \E i \in 1..Len(rest) : rest[i] = l[Len(l)]
          THEN rest
          ELSE insort(rest, l[Len(l)])

RECURSIVE sorted(_)
sorted(l) ==
  IF Len(l) = 0 THEN << >> ELSE insort(sorted(SubSeq(l, 1, Len(l) - 1)), l[Len(l)])

\* "%s,%d,%d,%d,%d,%d,%d,%d,%s" % (...)
format_row(n, bd, ed, ncpp, lcpp, npy, lpy, nmsg, sz) ==
  n \o "," \o ToString(bd) \o "," \o ToString(ed) \o "," \o ToString(ncpp) \o ","
    \o ToString(lcpp) \o "," \o ToString(npy) \o "," \o ToString(lpy) \o ","
    \o ToString(nmsg) \o "," \o sz

header ==
  "Name,# Build Depends,# Exec Depends,# C/C++ files,# C/C++ source lines,# Python files,# Python source lines,# Message/Service files,Porting effort"

diagnostic(package_path) ==
  "Could not find package name in directory '" \o package_path \o "', skipping"

-----------------------------------------------------------------------------
(* main(): the manifest loop *)

\* One round of `for child in tree.getroot().getchildren()` on the record
\* m = [name, build_depends, exec_depends, depends].
\* A variant in which a depend element counts as a build dependency only.
manifest_child_depend_build(m, child) ==
  IF child.tag = "name" THEN [m EXCEPT !.name = child.text]
  ELSE IF child.tag = "build_depend"
       THEN [m EXCEPT !.build_depends = @ + 1, !.depends = @ \cup {child.text}]
  ELSE IF child.tag = "exec_depend"
       THEN [m EXCEPT !.exec_depends = @ + 1, !.depends = @ \cup {child.text}]
  ELSE IF child.tag = "depend"
       THEN [m EXCEPT !.build_depends = @ + 1, !.depends = @ \cup {child.text}]
  ELSE m

\* A variant that keeps the first name it meets.
manifest_child_first_name(m, child) ==
  IF child.tag = "name"
  THEN (IF m.name = None THEN [m EXCEPT !.name = child.text] ELSE m)
  ELSE IF child.tag = "build_depend"
       THEN [m EXCEPT !.build_depends = @ + 1, !.depends = @ \cup {child.text}]
  ELSE IF child.tag = "exec_depend"
       THEN [m EXCEPT !.exec_depends = @ + 1, !.depends = @ \cup {child.text}]
  ELSE IF child.tag = "depend"
       THEN [m EXCEPT !.build_depends = @ + 1, !.exec_depends = @ + 1,
                      !.depends = @ \cup {child.text}]
  ELSE m

manifest_child(m, child) ==
  IF child.tag = "name" THEN [m EXCEPT !.name = child.text]
  ELSE IF child.tag = "build_depend"
       THEN [m EXCEPT !.build_depends = @ + 1, !.depends = @ \cup {child.text}]
  ELSE IF child.tag = "exec_depend"
       THEN [m EXCEPT !.exec_depends = @ + 1, !.depends = @ \cup {child.text}]
  ELSE IF child.tag = "depend"
       THEN [m EXCEPT !.build_depends = @ + 1, !.exec_depends = @ + 1,
                      !.depends = @ \cup {child.text}]
  ELSE m

\* A variant in which a non-empty exclusive list decides alone.
passes_filters_exclusive_wins(n) ==
  IF args.exclusive # {} THEN n[1] \in args.exclusive
  ELSE ~(n[1] \in args.exclude)

\* The two filters: TRUE when the package goes on to be scanned.
passes_filters(n) ==
  IF n[1] \in args.exclude THEN FALSE
  ELSE IF args.exclusive # {} /\ ~(n[1] \in args.exclusive) THEN FALSE
  ELSE TRUE

-----------------------------------------------------------------------------
(* main(): the classification of pygount's files *)

\* s[-n:]
last_chars(s, n) == SubSeq(s, IF Len(s) > n THEN Len(s) - n + 1 ELSE 1, Len(s))

endswith(s, suffix) == Len(s) >= Len(suffix) /\ last_chars(s, Len(suffix)) = suffix

no_files ==
  [cpp_files |-> << >>, cpp_lines |-> 0, py_files |-> << >>, py_lines |-> 0,
   launch_files |-> << >>, msg_files |-> 0]

\* A variant that scans the message and service files as launch files.
classify_child_msg_scanned(c, child) ==
  IF child.tag # "file" THEN c
  ELSE IF child.language \in {"C++", "C"}
       THEN [c EXCEPT !.cpp_files = Append(@, File(child.name, int(child.code))),
                      !.cpp_lines = @ + int(child.code)]
  ELSE IF child.language = "__unknown__"
       THEN IF last_chars(child.name, 4) \in {".msg", ".srv"}
            THEN [c EXCEPT !.msg_files = @ + 1,
                           !.launch_files =
                             Append(@, File(child.name, int(child.code)))]
            ELSE IF endswith(child.name, ".launch")
                 THEN [c EXCEPT !.launch_files =
                                  Append(@, File(child.name, int(child.code)))]
            ELSE c
  ELSE IF child.language = "Python"
       THEN [c EXCEPT !.py_files = Append(@, File(child.name, int(child.code))),
                      !.py_lines = @ + int(child.code)]
  ELSE c

\* One round of the loop over the children of /results/files on the record c.
classify_child(c, child) ==
  IF child.tag # "file" THEN c
  ELSE IF child.language \in {"C++", "C"}
       THEN [c EXCEPT !.cpp_files = Append(@, File(child.name, int(child.code))),
                      !.cpp_lines = @ + int(child.code)]
  ELSE IF child.language = "__unknown__"
       THEN IF last_chars(child.name, 4) \in {".msg", ".srv"}
            THEN [c EXCEPT !.msg_files = @ + 1]
            ELSE IF endswith(child.name, ".launch")
                 THEN [c EXCEPT !.launch_files =
                                  Append(@, File(child.name, int(child.code)))]
            ELSE c
  ELSE IF child.language = "Python"
       THEN [c EXCEPT !.py_files = Append(@, File(child.name, int(child.code))),
                      !.py_lines = @ + int(child.code)]
  ELSE c

RECURSIVE classify(_)
classify(children) ==
  IF Len(children) = 0 THEN no_files
  ELSE classify_child(classify(SubSeq(children, 1, Len(children) - 1)),
                      children[Len(children)])

-----------------------------------------------------------------------------
(* main(): the scans, the score and the size *)

cpp_plugins ==
  << RosCPPFileLinePlugin, RosCPPUsingTFLinePlugin,
     RosCPPUsingDynamicReconfigurePlugin, RosCPPActionServerPlugin >>

py_plugins ==
  << RosPyFileLinePlugin, RosPyUsingTFLinePlugin, RosPyActionServerLinePlugin >>

launch_plugins == << RosLaunchTestLinePlugin >>

\* The three scans, in the order main() runs them.
Scans == {"cpp", "py", "launch"}

files_of(scan) ==
  CASE scan = "cpp" -> cpp_files
    [] scan = "py" -> py_files
    [] scan = "launch" -> launch_files

plugins_of(scan) ==
  CASE scan = "cpp" -> cpp_plugins
    [] scan = "py" -> py_plugins
    [] scan = "launch" -> launch_plugins

after_scan(scan) ==
  CASE scan = "cpp" -> "py"
    [] scan = "py" -> "mixed"
    [] scan = "launch" -> "depends"

\* A variant in which the loop over the plugins misses the last one.
plugin_calls_but_last(op, ps, ids, scan, f, i) ==
  [k \in 1..(Len(ps) - 1) |->
     [op |-> op, obj |-> ids[k], cls |-> ps[k].cls, scan |-> scan, file |-> f,
      line |-> i]]

\* A variant in which the loop runs over the plugins from the last to the first.
plugin_calls_reversed(op, ps, ids, scan, f, i) ==
  [k \in 1..Len(ps) |->
     [op |-> op, obj |-> ids[Len(ps) + 1 - k], cls |-> ps[Len(ps) + 1 - k].cls,
      scan |-> scan, file |-> f, line |-> i]]

\* The calls one loop over the plugin list makes, in the order of the list:
\* the constructors of the list (op = "init"), plugin.line_cb for line i of
\* the file (op = "line_cb"), or plugin.finish (op = "finish"); f is the
\* position of the file in the scan's list of files.
plugin_calls(op, ps, ids, scan, f, i) ==
  [k \in 1..Len(ps) |->
     [op |-> op, obj |-> ids[k], cls |-> ps[k].cls, scan |-> scan, file |-> f,
      line |-> i]]

\* `for plugin in plugins: plugin.line_cb(line)`
line_cb_all(ps, line) == [i \in DOMAIN ps |-> line_cb(ps[i], line)]

\* The values plugin.finish(f) returns in `for plugin in plugins`.
finish_all(ps, f) == [i \in DOMAIN ps |-> finish(ps[i], f)]

\* score += ... over those values, from the one at i on.
RECURSIVE sum_from(_, _)
sum_from(values, i) ==
  IF i > Len(values) THEN 0 ELSE values[i] + sum_from(values, i + 1)

\* A variant that asks for either kind of file.
mixed_penalty_either(cpp, py) == IF Len(cpp) > 0 \/ Len(py) > 0 THEN 1 ELSE 0

mixed_penalty(cpp, py) == IF Len(cpp) > 0 /\ Len(py) > 0 THEN 1 ELSE 0

\* A variant that rounds down.
depends_penalty_floor(deps) == Cardinality(deps) \div 2

depends_penalty(deps) == divide_round_up(Cardinality(deps), 2)

\* A variant whose first threshold takes 10 as small.
size_of_le(ignore, s) ==
  IF ignore THEN "S"
  ELSE IF s <= 10 THEN "S"
  ELSE IF s < 30 THEN "M"
  ELSE "L"

size_of(ignore, s) ==
  IF ignore THEN "S"
  ELSE IF s < 10 THEN "S"
  ELSE IF s < 30 THEN "M"
  ELSE "L"

-----------------------------------------------------------------------------
(* main() as a state machine.  Its inputs come from env: the command lines *)
(* (argv), the walks, whether a package has the marker file (ignore), the  *)
(* manifests and whether the parser accepts them (parse_ok), pygount's     *)
(* reports, the files' lines (contents) and whether the file system        *)
(* delivers them (io_ok).                                                  *)

package_path == package_paths[package_i]

reading(scan) == scan \o "_line"

\* The state in which main() enters the loop over package_paths.
InitOn(env) ==
  /\ args \in env.argv
  /\ package_paths \in env.walks
  /\ package_i = 1
  /\ pc = "package"
  /\ name = None
  /\ catkin_ignore = FALSE
  /\ build_depends = 0
  /\ exec_depends = 0
  /\ depends = {}
  /\ tree = << >>
  /\ child_i = 1
  /\ cpp_files = << >>
  /\ cpp_lines = 0
  /\ py_files = << >>
  /\ py_lines = 0
  /\ launch_files = << >>
  /\ msg_files = 0
  /\ score = 0
  /\ size = ""
  /\ file_i = 1
  /\ plugins = << >>
  /\ infp = << >>
  /\ line_i = 1
  /\ penalties = << >>
  /\ packages = << >>
  /\ stdout = << >>
  /\ files = << >>
  /\ parsed = << >>
  /\ scanned = << >>
  /\ objs = << >>
  /\ allocated = 0
  /\ calls = << >>

\* continue, and the end of the loop body: on to the next package_path.
next_package ==
  /\ package_i' = package_i + 1
  /\ pc' = "package"

\* A variant that catches the error of a malformed manifest and prints the
\* report of the packages done so far before it gives up.
parse_manifest_flush(env) ==
  /\ pc = "package"
  /\ package_i <= Len(package_paths)
  /\ name' = None
  /\ \E ignore \in env.ignore : catkin_ignore' = ignore
  /\ build_depends' = 0
  /\ exec_depends' = 0
  /\ depends' = {}
  /\ \E ok \in env.parse_ok :
       IF ok
       THEN /\ \E manifest \in env.manifests :
                 /\ tree' = manifest
                 /\ parsed' = Append(parsed, manifest)
            /\ child_i' = 1
            /\ pc' = "children"
            /\ UNCHANGED stdout
       ELSE /\ pc' = "aborted"
            /\ stdout' = stdout \o << header >> \o sorted(packages)
            /\ UNCHANGED << tree, child_i, parsed >>
  /\ UNCHANGED << args, package_paths, package_i, cpp_files, cpp_lines, py_files,
                  py_lines, launch_files, msg_files, score, size, file_i, plugins,
                  infp, line_i, penalties, packages, files, scanned,
                  objs, allocated, calls >>

\* The head of the loop body: the marker file, the counters, and
\* lxml.etree.parse, which returns the manifest or raises when it is
\* malformed (ok = FALSE).
parse_manifest(env) ==
  /\ pc = "package"
  /\ package_i <= Len(package_paths)
  /\ name' = None
  /\ \E ignore \in env.ignore : catkin_ignore' = ignore
  /\ build_depends' = 0
  /\ exec_depends' = 0
  /\ depends' = {}
  /\ \E ok \in env.parse_ok :
       IF ok
       THEN /\ \E manifest \in env.manifests :
                 /\ tree' = manifest
                 /\ parsed' = Append(parsed, manifest)
            /\ child_i' = 1
            /\ pc' = "children"
       ELSE /\ pc' = "aborted"
            /\ UNCHANGED << tree, child_i, parsed >>
  /\ UNCHANGED << args, package_paths, package_i, cpp_files, cpp_lines, py_files,
                  py_lines, launch_files, msg_files, score, size, file_i, plugins,
                  infp, line_i, penalties, packages, stdout, files, scanned,
                  objs, allocated, calls >>

\* One round of the loop over the children of the manifest's root.
manifest_loop ==
  /\ pc = "children"
  /\ child_i <= Len(tree)
  /\ LET m == manifest_child([name |-> name, build_depends |-> build_depends,
                              exec_depends |-> exec_depends, depends |-> depends],
                             tree[child_i])
     IN /\ name' = m.name
        /\ build_depends' = m.build_depends
        /\ exec_depends' = m.exec_depends
        /\ depends' = m.depends
  /\ child_i' = child_i + 1
  /\ UNCHANGED << args, package_paths, package_i, pc, catkin_ignore, tree,
                  cpp_files, cpp_lines, py_files, py_lines, launch_files,
                  msg_files, score, size, file_i, plugins, infp, line_i,
                  penalties, packages, stdout, files, parsed,
                  scanned,
                  objs, allocated, calls >>

\* After the last child: the package without a name is reported and skipped,
\* the filtered package is skipped, any other goes on to pygount.
check_name ==
  /\ pc = "children"
  /\ child_i > Len(tree)
  /\ IF name = None
     THEN /\ stdout' = Append(stdout, diagnostic(package_path))
          /\ next_package
     ELSE IF ~passes_filters(name)
          THEN /\ next_package
               /\ UNCHANGED stdout
          ELSE /\ pc' = "pygount"
               /\ UNCHANGED << package_i, stdout >>
  /\ UNCHANGED << args, package_paths, name, catkin_ignore, build_depends,
                  exec_depends, depends, tree, child_i, cpp_files, cpp_lines,
                  py_files, py_lines, launch_files, msg_files, score, size,
                  file_i, plugins, infp, line_i, penalties, packages, files, parsed,
                  scanned,
                  objs, allocated, calls >>

\* pygount's report (the children of /results/files) is classified, and the
\* score starts at 0.
run_pygount(env) ==
  /\ pc = "pygount"
  /\ \E children \in env.pygount :
       /\ files' = children
       /\ LET c == classify(children)
          IN /\ cpp_files' = c.cpp_files
             /\ cpp_lines' = c.cpp_lines
             /\ py_files' = c.py_files
             /\ py_lines' = c.py_lines
             /\ launch_files' = c.launch_files
             /\ msg_files' = c.msg_files
  /\ scanned' = << >>
  /\ calls' = << >>
  /\ score' = 0
  /\ file_i' = 1
  /\ pc' = "cpp"
  /\ UNCHANGED << args, package_paths, package_i, name, catkin_ignore,
                  build_depends, exec_depends, depends, tree, child_i, size,
                  plugins, infp, line_i, penalties, packages, stdout, parsed,
                  objs, allocated >>

\* A variant that makes the plugin list once, before the first file of the
\* scan, and uses it for every file of the scan.
open_file_reuse(scan, env) ==
  /\ pc = scan
  /\ file_i <= Len(files_of(scan))
  /\ plugins' = IF file_i = 1 THEN plugins_of(scan) ELSE plugins
  /\ objs' = IF file_i = 1 THEN [k \in 1..Len(plugins') |-> allocated + k] ELSE objs
  /\ allocated' = IF file_i = 1 THEN allocated + Len(plugins') ELSE allocated
  /\ calls' = IF file_i = 1
              THEN calls \o plugin_calls("init", plugins', objs', scan, file_i, 0)
              ELSE calls
  /\ penalties' = << >>
  /\ \E ok \in env.io_ok :
       IF ok
       THEN /\ \E lines \in env.contents[scan] : infp' = lines
            /\ line_i' = 1
            /\ pc' = reading(scan)
       ELSE /\ pc' = "aborted"
            /\ UNCHANGED << infp, line_i >>
  /\ UNCHANGED << args, package_paths, package_i, name, catkin_ignore,
                  build_depends, exec_depends, depends, tree, child_i, cpp_files,
                  cpp_lines, py_files, py_lines, launch_files, msg_files, score,
                  size, file_i, packages, stdout, files, parsed, scanned >>

\* The next file of a scan: fresh plugins, and open(), which gives the
\* file's lines or raises when the file is unreadable (ok = FALSE).
open_file(scan, env) ==
  /\ pc = scan
  /\ file_i <= Len(files_of(scan))
  /\ plugins' = plugins_of(scan)
  /\ objs' = [k \in 1..Len(plugins') |-> allocated + k]
  /\ allocated' = allocated + Len(plugins')
  /\ calls' = calls \o plugin_calls("init", plugins', objs', scan, file_i, 0)
  /\ penalties' = << >>
  /\ \E ok \in env.io_ok :
       IF ok
       THEN /\ \E lines \in env.contents[scan] : infp' = lines
            /\ line_i' = 1
            /\ pc' = reading(scan)
       ELSE /\ pc' = "aborted"
            /\ UNCHANGED << infp, line_i >>
  /\ UNCHANGED << args, package_paths, package_i, name, catkin_ignore,
                  build_depends, exec_depends, depends, tree, child_i, cpp_files,
                  cpp_lines, py_files, py_lines, launch_files, msg_files, score,
                  size, file_i, packages, stdout, files, parsed,
                  scanned >>

\* One round of the loop over the lines: every plugin of the list sees the
\* line, or the read raises (ok = FALSE).
read_line(scan, env) ==
  /\ pc = reading(scan)
  /\ line_i <= Len(infp)
  /\ \E ok \in env.io_ok :
       IF ok
       THEN /\ plugins' = line_cb_all(plugins, infp[line_i])
            /\ calls' = calls \o plugin_calls("line_cb", plugins, objs, scan, file_i, line_i)
            /\ line_i' = line_i + 1
            /\ UNCHANGED pc
       ELSE /\ pc' = "aborted"
            /\ UNCHANGED << plugins, line_i, calls >>
  /\ UNCHANGED << args, package_paths, package_i, name, catkin_ignore,
                  build_depends, exec_depends, depends, tree, child_i, cpp_files,
                  cpp_lines, py_files, py_lines, launch_files, msg_files, score,
                  size, file_i, infp, penalties, packages, stdout, files, parsed,
                  scanned,
                  objs, allocated >>

\* After the last line: every plugin's finish is added to the score.
finish_file(scan) ==
  /\ pc = reading(scan)
  /\ line_i > Len(infp)
  /\ penalties' = finish_all(plugins, files_of(scan)[file_i])
  /\ calls' = calls \o plugin_calls("finish", plugins, objs, scan, file_i, 0)
  /\ score' = score + sum_from(penalties', 1)
  /\ scanned' = Append(scanned, [scan |-> scan, file |-> files_of(scan)[file_i],
                                 lines |-> infp, penalties |-> penalties'])
  /\ file_i' = file_i + 1
  /\ pc' = scan
  /\ UNCHANGED << args, package_paths, package_i, name, catkin_ignore,
                  build_depends, exec_depends, depends, tree, child_i, cpp_files,
                  cpp_lines, py_files, py_lines, launch_files, msg_files, size,
                  plugins, infp, line_i, packages, stdout, files, parsed,
                  objs, allocated >>

\* The end of a scan's loop over its files.
end_scan(scan) ==
  /\ pc = scan
  /\ file_i > Len(files_of(scan))
  /\ pc' = after_scan(scan)
  /\ file_i' = 1
  /\ UNCHANGED << args, package_paths, package_i, name, catkin_ignore,
                  build_depends, exec_depends, depends, tree, child_i, cpp_files,
                  cpp_lines, py_files, py_lines, launch_files, msg_files, score,
                  size, plugins, infp, line_i, penalties, packages, stdout, files, parsed,
                  scanned,
                  objs, allocated, calls >>

\* if cpp_files and py_files: score += 1
add_mixed ==
  /\ pc = "mixed"
  /\ score' = score + mixed_penalty(cpp_files, py_files)
  /\ pc' = "launch"
  /\ UNCHANGED << args, package_paths, package_i, name, catkin_ignore,
                  build_depends, exec_depends, depends, tree, child_i, cpp_files,
                  cpp_lines, py_files, py_lines, launch_files, msg_files, size,
                  file_i, plugins, infp, line_i, penalties, packages, stdout, files,
           parsed, scanned, files, parsed,
                  scanned,
                  objs, allocated, calls >>

\* score += divide_round_up(len(depends), 2)
add_depends ==
  /\ pc = "depends"
  /\ score' = score + depends_penalty(depends)
  /\ pc' = "size"
  /\ UNCHANGED << args, package_paths, package_i, name, catkin_ignore,
                  build_depends, exec_depends, depends, tree, child_i, cpp_files,
                  cpp_lines, py_files, py_lines, launch_files, msg_files, size,
                  file_i, plugins, infp, line_i, penalties, packages, stdout, files,
           parsed, scanned, files, parsed,
                  scanned,
                  objs, allocated, calls >>

\* The size bucket and the package's row.
append_row ==
  /\ pc = "size"
  /\ size' = size_of(catkin_ignore, score)
  /\ packages' = Append(packages,
                        format_row(name[1], build_depends, exec_depends,
                                   Len(cpp_files), cpp_lines, Len(py_files),
                                   py_lines, msg_files, size'))
  /\ next_package
  /\ UNCHANGED << args, package_paths, name, catkin_ignore, build_depends,
                  exec_depends, depends, tree, child_i, cpp_files, cpp_lines,
                  py_files, py_lines, launch_files, msg_files, score, file_i,
                  plugins, infp, line_i, penalties, stdout, files, parsed,
                  scanned,
                  objs, allocated, calls >>

\* After the last package: the header and the sorted rows.
print_report ==
  /\ pc = "package"
  /\ package_i > Len(package_paths)
  /\ stdout' = stdout \o << header >> \o sorted(packages)
  /\ pc' = "done"
  /\ UNCHANGED << args, package_paths, package_i, name, catkin_ignore,
                  build_depends, exec_depends, depends, tree, child_i, cpp_files,
                  cpp_lines, py_files, py_lines, launch_files, msg_files, score,
                  size, file_i, plugins, infp, line_i, penalties, packages, files, parsed,
                  scanned,
                  objs, allocated, calls >>

\* main() run on the inputs env allows.
NextOn(env) ==
  \/ parse_manifest(env)
  \/ manifest_loop
  \/ check_name
  \/ run_pygount(env)
  \/ \E scan \in Scans : open_file(scan, env)
  \/ \E scan \in Scans : read_line(scan, env)
  \/ \E scan \in Scans : finish_file(scan)
  \/ \E scan \in Scans : end_scan(scan)
  \/ add_mixed
  \/ add_depends
  \/ append_row
  \/ print_report

-----------------------------------------------------------------------------
(* The inputs *)

SeqsUpTo(S, n) == UNION { [1..k -> S] : k \in 0..n }

Element(tag, text) == [tag |-> tag, text |-> text]

PygountFile(file_name, language, code) ==
  [tag |-> "file", name |-> file_name, language |-> language, code |-> code]

\* The directories of the walk: the first k of /ws/p1, /ws/p2, ...
Walk(k) == [i \in 1..k |-> "/ws/p" \o ToString(i)]

NoArgs == [exclusive |-> {}, exclude |-> {}]

\* Runs on up to MaxPackages packages, each with one of a few manifests and
\* at most one file.
MaxPackages == 2

Env ==
  [argv |-> [exclusive : SUBSET {"foo", "bar"}, exclude : SUBSET {"foo", "bar"}],
   walks |-> { Walk(k) : k \in 0..MaxPackages },
   ignore |-> {FALSE},
   parse_ok |-> BOOLEAN,
   manifests |-> { << Element("version", Some("1.0")) >>,
                   << Element("name", None) >>,
                   << Element("name", Some("foo")) >>,
                   << Element("name", Some("bar")), Element("depend", Some("foo")) >> },
   pygount |-> { << >>, << PygountFile("src/a.cpp", "C++", "500") >> },
   io_ok |-> BOOLEAN,
   contents |-> [scan \in Scans |-> { << "using namespace ros;\n" >> }]]

Init == InitOn(Env)

Next == NextOn(Env)

Spec == Init /\ [][Next]_vars

-----------------------------------------------------------------------------
(* The scan of one file: one package named foo with one file, of any of    *)
(* the three kinds, of up to MaxLines lines.                               *)

MaxLines == 2

CppLines ==
  { "int x = 0;\n",
    "#include <tf/tf.h>\n",
    "using namespace ros;\n",
    "ros::spin();\n",
    "tf::TransformListener listener;\n",
    "tf2_ros::Buffer buffer;\n",
    "tf::Vector3 v; tf2_ros::Buffer b;\n",
    "tf2_ros::Buffer b; tf::Vector3 v;\n",
    "dynamic_reconfigure::Server<Cfg> srv;\n",
    "actionlib::SimpleActionServer<A> as;\n",
    "ACTIONLIB::SIMPLEACTIONSERVER<A> as;\n" }

PyLines ==
  { "x = 1\n",
    "import rospy\n",
    "import tf\n",
    "import tf",
    "import tf2_ros\n",
    "from tf_conversions import posemath\n",
    "srv = actionlib.SimpleActionServer(n)\n" }

LaunchLines ==
  { "<launch>\n",
    "<node pkg=\"p\" type=\"t\"/>\n",
    "<test pkg=\"p\" type=\"t\"/>\n",
    "<TEST pkg=\"p\"/>\n" }

EnvScan ==
  [argv |-> { NoArgs },
   walks |-> { Walk(1) },
   ignore |-> {FALSE},
   parse_ok |-> {TRUE},
   manifests |-> { << Element("name", Some("foo")) >> },
   pygount |-> { << PygountFile("src/a.cpp", "C++", code) >> :
                   code \in {"0", "1", "1000", "1001", "2500"} }
               \cup { << PygountFile("scripts/b.py", "Python", code) >> :
                        code \in {"0", "1", "500", "501", "1200"} }
               \cup { << PygountFile("launch/c.launch", "__unknown__", "7") >> },
   io_ok |-> {TRUE},
   contents |-> [scan \in Scans |->
                   CASE scan = "cpp" -> SeqsUpTo(CppLines, MaxLines)
                     [] scan = "py" -> SeqsUpTo(PyLines, MaxLines)
                     [] scan = "launch" -> SeqsUpTo(LaunchLines, MaxLines)]]

InitScan == InitOn(EnvScan)

NextScan == NextOn(EnvScan)

SpecScan == InitScan /\ [][NextScan]_vars

-----------------------------------------------------------------------------
(* What the claims are stated with *)

\* sub occurs in s.
Contains(s, sub) ==
  \E i \in 0..(Len(s) - Len(sub)) : \A k \in 1..Len(sub) : Char(s, i + k) = Char(sub, k)

\* Some line of the file just read contains sub.
SomeLine(sub) == \E i \in 1..Len(infp) : Contains(infp[i], sub)

\* The last file of the scan has been read to its end and finished, and
\* nothing has been opened since: penalties holds what its plugins returned.
Finished(scan) ==
  /\ pc = scan
  /\ penalties # << >>
  /\ plugins[1].cls = plugins_of(scan)[1].cls

\* The file that was just finished.
FinishedFile(scan) == files_of(scan)[file_i - 1]

-----------------------------------------------------------------------------
(* C1 *)

\* C1: for every native file, RosCPPUsingTFLinePlugin (line_cb on every
\* line in order, then finish) returns 2 if and only if some line of the
\* file contains tf:: and no line of the file contains tf2_ros::, and 0 in
\* every other case.
C1_TfPenaltyIffTfAndNeverTf2 ==
  Finished("cpp") =>
    penalties[2] = IF SomeLine("tf::") /\ ~SomeLine("tf2_ros::") THEN 2 ELSE 0

-----------------------------------------------------------------------------
(* C8 *)

\* n / d rounded up, for n >= 0 and d > 0.
Ceil(n, d) == IF n % d = 0 THEN n \div d ELSE (n \div d) + 1

LineCounts == {0, 1, 999, 1000, 1001, 1999, 2000, 2001, 2500}

\* C8: for every native file with a line that contains "using namespace ros"
\* or "ros::", RosCPPFileLinePlugin finishes to ceil(line_count / 1000) of
\* the file's classified code-line total, whatever the number of lines read;
\* that penalty does not decrease when the line count grows; and the
\* plugin finishes to 0 for a file with no such line.
C8_NamespacePenaltyIsCeilOfLineCount ==
  Finished("cpp") =>
    IF SomeLine("using namespace ros") \/ SomeLine("ros::")
    THEN /\ penalties[1] = Ceil(FinishedFile("cpp").lines, 1000)
         /\ \A a, b \in LineCounts :
              a <= b => /\ finish(plugins[1], File("f", a)) = Ceil(a, 1000)
                        /\ finish(plugins[1], File("f", a))
                             <= finish(plugins[1], File("f", b))
    ELSE penalties[1] = 0

\* A native file of two lines, one with ros::, counted as 1001 code lines,
\* has been finished with the penalty 2.
C8_Witness ==
  /\ Finished("cpp")
  /\ Len(infp) = 2
  /\ SomeLine("ros::")
  /\ FinishedFile("cpp").lines = 1001
  /\ penalties[1] = 2

-----------------------------------------------------------------------------
(* C9 *)

\* The line matches a trigger pattern of the plugin class.
Triggers(cls, line) ==
  CASE cls = "RosCPPFileLinePlugin" -> roscpp_using_re(line) \/ roscpp_namespace_re(line)
    [] cls = "RosCPPUsingTFLinePlugin" -> tf_using_re(line) \/ tf2_using_re(line)
    [] cls = "RosCPPUsingDynamicReconfigurePlugin" -> dynamic_reconfigure_re(line)
    [] cls = "RosCPPActionServerPlugin" -> cpp_action_server_re(line)
    [] cls = "RosPyFileLinePlugin" -> rospy_re(line)
    [] cls = "RosPyUsingTFLinePlugin" ->
         tf_import_re(line) \/ tf_conversions_import_re(line)
    [] cls = "RosPyActionServerLinePlugin" -> py_action_server_re(line)
    [] cls = "RosLaunchTestLinePlugin" -> launch_test_re(line)

Untriggered(cls) == \A i \in 1..Len(infp) : ~Triggers(cls, infp[i])

\* C9: a plugin of any of the eight classes finishes to exactly 0 for a file,
\* of any length and any line count, in which no line matches a trigger
\* pattern of that plugin.
C9_NoMatchingLineFinishesToZero ==
  \A scan \in Scans :
    Finished(scan) =>
      \A i \in 1..Len(penalties) :
        Untriggered(plugins_of(scan)[i].cls) => penalties[i] = 0

\* A scripting file of two lines, counted as 1200 code lines, in which no
\* line matches any pattern, has been finished with three penalties of 0.
C9_Witness ==
  /\ Finished("py")
  /\ Len(infp) = 2
  /\ FinishedFile("py").lines = 1200
  /\ \A i \in 1..3 : Untriggered(py_plugins[i].cls)
  /\ penalties = << 0, 0, 0 >>

-----------------------------------------------------------------------------
(* The size bucket: one package named foo, with or without the marker      *)
(* file, whose one native file uses ros:: and has one of several code      *)
(* counts, so that its score is the count's thousands, rounded up.         *)

EnvSize ==
  [argv |-> { NoArgs },
   walks |-> { Walk(1) },
   ignore |-> BOOLEAN,
   parse_ok |-> {TRUE},
   manifests |-> { << Element("name", Some("foo")) >> },
   pygount |-> { << PygountFile("src/a.cpp", "C++", code) >> :
                   code \in {"0", "8001", "9000", "9001", "10000", "28001",
                             "29000", "29001", "30000", "1000000"} },
   io_ok |-> {TRUE},
   contents |-> [scan \in Scans |-> { << "ros::spin();\n" >> }]]

InitSize == InitOn(EnvSize)

NextSize == NextOn(EnvSize)

SpecSize == InitSize /\ [][NextSize]_vars

-----------------------------------------------------------------------------
(* C2 *)

Bucket(ignore, s) ==
  IF ignore THEN "S"
  ELSE CASE s < 10 -> "S"
         [] 10 <= s /\ s < 30 -> "M"
         [] s >= 30 -> "L"

\* s ends with suffix.
EndsWith(s, suffix) ==
  /\ Len(s) >= Len(suffix)
  /\ SubSeq(s, Len(s) - Len(suffix) + 1, Len(s)) = suffix

\* C2: the size bucket is decided by the marker and the final score alone:
\* with the marker it is S for every score, without it S below 10, M from 10
\* to 29 and L from 30 on; it is the size assigned and the last field of the
\* package's row.
C2_SizeIsBucketOfIgnoreAndScore ==
  [][ pc = "size" =>
        /\ size' = Bucket(catkin_ignore, score)
        /\ EndsWith(packages'[Len(packages')], "," \o Bucket(catkin_ignore, score)) ]_vars

\* The package with the marker and the score 1000 has got the row of size S.
C2_Witness ==
  /\ pc = "done"
  /\ catkin_ignore
  /\ score = 1000
  /\ size = "S"
  /\ packages = << "foo,0,0,1,1000000,0,0,0,S" >>

\* The scores 9, 10, 29 and 30 without the marker.
C2_Witness9 == pc = "done" /\ ~catkin_ignore /\ score = 9 /\ size = "S"

C2_Witness10 == pc = "done" /\ ~catkin_ignore /\ score = 10 /\ size = "M"

C2_Witness29 == pc = "done" /\ ~catkin_ignore /\ score = 29 /\ size = "M"

C2_Witness30 == pc = "done" /\ ~catkin_ignore /\ score = 30 /\ size = "L"

-----------------------------------------------------------------------------
(* The manifest: one package with one native file that matches nothing.    *)
(* Its manifest is any sequence of up to MaxChildren elements, name        *)
(* elements (one of them without text) among them.                         *)

MaxChildren == 3

NameElements ==
  { Element("name", Some("foo")), Element("name", Some("bar")),
    Element("name", None), Element("version", Some("1.0")),
    Element("depend", Some("roscpp")) }

EnvManifest ==
  [argv |-> { NoArgs, [exclusive |-> {"foo"}, exclude |-> {}],
              [exclusive |-> {}, exclude |-> {"bar"}] },
   walks |-> { Walk(1) },
   ignore |-> {FALSE},
   parse_ok |-> {TRUE},
   manifests |-> SeqsUpTo(NameElements, MaxChildren),
   pygount |-> { << PygountFile("src/a.cpp", "C++", "10") >> },
   io_ok |-> {TRUE},
   contents |-> [scan \in Scans |-> { << "int x = 0;\n" >> }]]

InitManifest == InitOn(EnvManifest)

NextManifest == NextOn(EnvManifest)

SpecManifest == InitManifest /\ [][NextManifest]_vars

-----------------------------------------------------------------------------
(* C5 *)

NameIndexes(t) == { i \in 1..Len(t) : t[i].tag = "name" }

Min(S) == CHOOSE x \in S : \A y \in S : x <= y

Max(S) == CHOOSE x \in S : \A y \in S : x >= y

\* The text of the first, and of the last, name element of the manifest t;
\* None when it has no name element.
FirstName(t) == IF NameIndexes(t) = {} THEN None ELSE t[Min(NameIndexes(t))].text

LastName(t) == IF NameIndexes(t) = {} THEN None ELSE t[Max(NameIndexes(t))].text

\* the exclusive list is empty or contains n, and the exclude list does not
\* contain n.
Selected(n) ==
  /\ args.exclusive = {} \/ n \in args.exclusive
  /\ ~(n \in args.exclude)

\* s starts with prefix.
StartsWith(s, prefix) == Len(s) >= Len(prefix) /\ SubSeq(s, 1, Len(prefix)) = prefix

\* The package goes by the name n: after the manifest loop n is the name the
\* filters decide on, and the name that starts the package's row.
GoesBy(n) ==
  /\ pc = "children" /\ child_i > Len(tree) =>
       /\ name = n
       /\ (pc' = "pygount") <=> (n # None /\ Selected(n[1]))
  /\ pc = "size" => StartsWith(packages'[Len(packages')], n[1] \o ",")

\* C5, as claimed: the first name element of the manifest wins.
C5_FirstNameWins == [][ GoesBy(FirstName(tree)) ]_vars

\* C5, amended: the last name element of the manifest wins.
C5_LastNameWins == [][ GoesBy(LastName(tree)) ]_vars

\* The manifest names foo and then bar, the exclude list holds bar, and the
\* package has been dropped after the manifest loop.
C5_Witness ==
  /\ tree = << Element("name", Some("foo")), Element("name", Some("bar")) >>
  /\ args.exclude = {"bar"}
  /\ name = Some("bar")
  /\ pc = "package"
  /\ package_i = 2
  /\ packages = << >>

\* The manifest names bar and then foo, and the row is foo's.
C5_WitnessRow ==
  /\ tree = << Element("name", Some("bar")), Element("name", Some("foo")) >>
  /\ pc = "done"
  /\ packages = << "foo,0,0,1,10,0,0,0,S" >>

-----------------------------------------------------------------------------
(* The dependencies: one package named foo with one native file that       *)
(* matches nothing, and up to MaxDepends dependency elements over four     *)
(* names, one of them under two tags.                                      *)

MaxDepends == 4

DependElements ==
  { Element("build_depend", Some("roscpp")), Element("exec_depend", Some("roscpp")),
    Element("depend", Some("tf")), Element("depend", Some("rospy")),
    Element("build_depend", Some("actionlib")) }

EnvDepends ==
  [argv |-> { NoArgs },
   walks |-> { Walk(1) },
   ignore |-> {FALSE},
   parse_ok |-> {TRUE},
   manifests |-> { << Element("name", Some("foo")) >> \o d :
                     d \in SeqsUpTo(DependElements, MaxDepends) },
   pygount |-> { << PygountFile("src/a.cpp", "C++", "10") >> },
   io_ok |-> {TRUE},
   contents |-> [scan \in Scans |-> { << "int x = 0;\n" >> }]]

InitDepends == InitOn(EnvDepends)

NextDepends == NextOn(EnvDepends)

SpecDepends == InitDepends /\ [][NextDepends]_vars

-----------------------------------------------------------------------------
(* C6 *)

DependTags == {"build_depend", "exec_depend", "depend"}

\* The distinct texts of the dependency elements of the manifest t.
DeclaredDependencies(t) == { t[i].text : i \in { j \in 1..Len(t) : t[j].tag \in DependTags } }

\* C6: the dependency term added to the score is ceil(n / 2) for the n
\* distinct names declared by the build_depend, exec_depend and depend
\* elements of the manifest, whatever the two counters are: 0 for n = 0,
\* 1 for n = 1, 2 for n = 4.
C6_DependencyTermIsHalfOfDistinctNames ==
  [][ pc = "depends" =>
        LET n == Cardinality(DeclaredDependencies(tree))
        IN /\ score' = score + Ceil(n, 2)
           /\ n = 0 => score' = score
           /\ n = 1 => score' = score + 1
           /\ n = 4 => score' = score + 2 ]_vars

\* Four distinct names, one of them declared twice, have added 2.
C6_Witness ==
  /\ pc = "size"
  /\ Cardinality(DeclaredDependencies(tree)) = 4
  /\ Len(tree) = 5
  /\ score = 2

\* One name declared under two tags and a second name have added 1.
C6_WitnessTwice ==
  /\ pc = "size"
  /\ tree = << Element("name", Some("foo")), Element("build_depend", Some("roscpp")),
               Element("exec_depend", Some("roscpp")), Element("depend", Some("tf")) >>
  /\ build_depends = 2
  /\ exec_depends = 2
  /\ score = 1

-----------------------------------------------------------------------------
(* The score: one package named foo, with or without a dependency on bar,  *)
(* and a report of up to MaxFiles entries: native, scripting, launch,      *)
(* message and other files.                                                *)

MaxFiles == 3

FooManifest == << Element("name", Some("foo")), Element("depend", Some("bar")) >>

FooFile == PygountFile("src/a.cpp", "C++", "500")

FileElements ==
  { FooFile,
    PygountFile("scripts/b.py", "Python", "20"),
    PygountFile("launch/t.launch", "__unknown__", "5"),
    PygountFile("msg/M.msg", "__unknown__", "3"),
    PygountFile("CMakeLists.txt", "CMake", "12") }

EnvPackage ==
  [argv |-> { NoArgs },
   walks |-> { Walk(1) },
   ignore |-> {FALSE},
   parse_ok |-> {TRUE},
   manifests |-> { FooManifest, << Element("name", Some("foo")) >> },
   pygount |-> SeqsUpTo(FileElements, MaxFiles),
   io_ok |-> {TRUE},
   contents |-> [scan \in Scans |->
                   CASE scan = "cpp" -> { << "using namespace ros;\n" >>,
                                          << "tf::Vector3 v;\n", "int x = 0;\n" >> }
                     [] scan = "py" -> { << "import rospy\n" >> }
                     [] scan = "launch" -> { << "<test pkg=\"p\"/>\n" >>,
                                             << "<node pkg=\"p\"/>\n" >> }]]

InitPackage == InitOn(EnvPackage)

NextPackage == NextOn(EnvPackage)

SpecPackage == InitPackage /\ [][NextPackage]_vars

-----------------------------------------------------------------------------
(* C4 *)

IsNative(c) == c.tag = "file" /\ c.language \in {"C++", "C"}

IsScripting(c) == c.tag = "file" /\ c.language = "Python"

IsLaunch(c) ==
  c.tag = "file" /\ c.language = "__unknown__" /\ EndsWith(c.name, ".launch")

\* The names of the entries of the report that satisfy Is, in its order.
NamesOf(Is(_)) ==
  LET chosen == SelectSeq(files, Is) IN [i \in 1..Len(chosen) |-> chosen[i].name]

\* The finished files of one scan, in the order they were finished.
ScannedBy(scan) == SelectSeq(scanned, LAMBDA r : r.scan = scan)

ScannedNames(scan) ==
  LET rs == ScannedBy(scan) IN [i \in 1..Len(rs) |-> rs[i].file.name]

RECURSIVE Sum(_)
Sum(values) ==
  IF Len(values) = 0 THEN 0 ELSE values[1] + Sum(Tail(values))

\* The sum, over the finished files of the scan, of the n penalties of each.
RECURSIVE PenaltiesOf(_, _)
PenaltiesOf(rs, n) ==
  IF Len(rs) = 0 THEN 0
  ELSE (IF Len(rs[1].penalties) = n THEN Sum(rs[1].penalties) ELSE -1000)
       + PenaltiesOf(Tail(rs), n)

MixedTerm == IF NamesOf(IsNative) # << >> /\ NamesOf(IsScripting) # << >> THEN 1 ELSE 0

\* C4: the final score of a package is the sum over its native files of the
\* four native penalties, plus the sum over its scripting files of the three
\* scripting penalties, plus 1 if it has a native and a scripting file, plus
\* the sum over its launch files of the test penalty, plus ceil(n / 2) for
\* its n distinct dependencies; no other file is scanned.  The package foo
\* with a depend on bar and one native file of 500 lines that only the
\* namespace plugin penalises has the score 2 and the row
\* foo,1,1,1,500,0,0,0,S.
C4_ScoreIsSumOfTerms ==
  /\ pc = "size" =>
       /\ ScannedNames("cpp") = NamesOf(IsNative)
       /\ ScannedNames("py") = NamesOf(IsScripting)
       /\ ScannedNames("launch") = NamesOf(IsLaunch)
       /\ score = PenaltiesOf(ScannedBy("cpp"), 4)
                    + PenaltiesOf(ScannedBy("py"), 3)
                    + MixedTerm
                    + PenaltiesOf(ScannedBy("launch"), 1)
                    + Ceil(Cardinality(DeclaredDependencies(tree)), 2)
  /\ ( /\ pc = "package"
       /\ package_i = 2
       /\ tree = FooManifest
       /\ files = << FooFile >>
       /\ penalties = << 1, 0, 0, 0 >> )
     => /\ score = 2
        /\ packages = << "foo,1,1,1,500,0,0,0,S" >>

\* The package foo of the claim has been scanned and has got its row.
C4_Witness ==
  /\ pc = "done"
  /\ tree = FooManifest
  /\ files = << FooFile >>
  /\ infp = << "using namespace ros;\n" >>
  /\ penalties = << 1, 0, 0, 0 >>
  /\ score = 2
  /\ packages = << "foo,1,1,1,500,0,0,0,S" >>

\* A package with a native, a scripting and a launch file has its final score.
C4_WitnessThree ==
  /\ pc = "size"
  /\ Len(ScannedBy("cpp")) = 1
  /\ Len(ScannedBy("py")) = 1
  /\ Len(ScannedBy("launch")) = 1
  /\ score = 5

-----------------------------------------------------------------------------
(* C7 *)

\* The positions of main() from the start of the scans to the row.
BeforeMixed == {"cpp", "cpp_line", "py", "py_line", "mixed"}

AfterMixed == {"launch", "launch_line", "depends", "size"}

\* What the score holds besides the penalties of the finished files and,
\* once it is added, the dependency term.
BesidesPenalties ==
  score - PenaltiesOf(ScannedBy("cpp"), 4) - PenaltiesOf(ScannedBy("py"), 3)
        - PenaltiesOf(ScannedBy("launch"), 1)
        - (IF pc = "size" THEN Ceil(Cardinality(DeclaredDependencies(tree)), 2) ELSE 0)

\* C7: the mixed-language term is 1 exactly for a package with at least one
\* native and at least one scripting file, and is added once, however many
\* files of each kind there are; a package with only native files, only
\* scripting files or neither never gets it.
C7_MixedTermOnceIffBothKinds ==
  /\ pc \in BeforeMixed => BesidesPenalties = 0
  /\ pc \in AfterMixed => BesidesPenalties = MixedTerm

\* Two native files and one scripting file: 1 has been added, once.
C7_Witness ==
  /\ pc = "launch"
  /\ Len(cpp_files) = 2
  /\ Len(py_files) = 1
  /\ BesidesPenalties = 1

\* Native files only: nothing has been added.
C7_WitnessNativeOnly ==
  /\ pc = "launch"
  /\ Len(cpp_files) = 2
  /\ Len(py_files) = 0
  /\ BesidesPenalties = 0

-----------------------------------------------------------------------------
(* C3 *)

\* The rows of the report: the lines of stdout after the header.
HeaderIndex == CHOOSE i \in 1..Len(stdout) : stdout[i] = header

ReportRows == SubSeq(stdout, HeaderIndex + 1, Len(stdout))

\* Some row of rows is the row of a package named n.
HasRow(rows, n) == \E j \in 1..Len(rows) : StartsWith(rows[j], n \o ",")

\* C3: a discovered package with a name yields a row of the report if and
\* only if the exclusive list is empty or contains the name, and the exclude
\* list does not contain the name; a name in both lists is dropped.
C3_RowIffSelected ==
  /\ pc \in {"package", "done"} =>
       \A i \in 1..Len(parsed) :
         LET n == LastName(parsed[i])
         IN n # None =>
              /\ HasRow(packages, n[1]) <=> Selected(n[1])
              /\ (n[1] \in args.exclusive /\ n[1] \in args.exclude)
                   => ~HasRow(packages, n[1])
  /\ pc = "done" =>
       \A i \in 1..Len(parsed) :
         LET n == LastName(parsed[i])
         IN n # None => (HasRow(ReportRows, n[1]) <=> Selected(n[1]))

\* --exclusive foo --exclude foo: the packages foo and bar are both dropped.
C3_Witness ==
  /\ pc = "done"
  /\ args = [exclusive |-> {"foo"}, exclude |-> {"foo"}]
  /\ Len(parsed) = 2
  /\ LastName(parsed[1]) = Some("foo")
  /\ LastName(parsed[2]) = Some("bar")
  /\ stdout = << header >>

\* --exclusive foo --exclusive bar --exclude bar: foo has its row, bar has none.
C3_WitnessKept ==
  /\ pc = "done"
  /\ args = [exclusive |-> {"foo", "bar"}, exclude |-> {"bar"}]
  /\ Len(parsed) = 2
  /\ LastName(parsed[1]) = Some("bar")
  /\ LastName(parsed[2]) = Some("foo")
  /\ ReportRows = << "foo,0,0,1,500,0,0,0,S" >>

-----------------------------------------------------------------------------
(* C10 *)

\* The package of the manifest t has a name and passes the filters.
Reported(t) == LastName(t) # None /\ Selected(LastName(t)[1])

\* The names of the reported packages among the manifests ts, in their order.
ReportedNames(ts) ==
  LET chosen == SelectSeq(ts, Reported)
  IN [j \in 1..Len(chosen) |-> LastName(chosen[j])[1]]

\* The directories of the packages without a name among the first k packages,
\* in their order.
RECURSIVE NamelessPaths(_)
NamelessPaths(k) ==
  IF k = 0 THEN << >>
  ELSE IF LastName(parsed[k]) = None
       THEN Append(NamelessPaths(k - 1), package_paths[k])
       ELSE NamelessPaths(k - 1)

\* The number of the elements of the sequence rows that satisfy Is.
Count(rows, Is(_)) == Len(SelectSeq(rows, Is))

\* Between two packages, and at the end: one row for each package that has a
\* name and passes the filters, in the order of the packages, and one
\* diagnostic for each package without a name, naming its directory.
RowsAndDiagnostics ==
  pc \in {"package", "done"} =>
    /\ Len(parsed) = package_i - 1
    /\ Len(packages) = Len(ReportedNames(parsed))
    /\ \A j \in 1..Len(packages) :
         StartsWith(packages[j], ReportedNames(parsed)[j] \o ",")
    /\ LET paths == NamelessPaths(Len(parsed))
           said == IF pc = "done" THEN SubSeq(stdout, 1, HeaderIndex - 1) ELSE stdout
       IN /\ Len(said) = Len(paths)
          /\ \A k \in 1..Len(paths) :
               /\ StartsWith(said[k], "Could not find package name")
               /\ Contains(said[k], "'" \o paths[k] \o "'")

\* The report: the header, then as many rows for each name as there are
\* reported packages of that name, and nothing else.
ReportHasOneRowEach ==
  pc = "done" =>
    /\ Len(ReportRows) = Len(ReportedNames(parsed))
    /\ \A n \in {"foo", "bar"} :
         Count(ReportRows, LAMBDA r : StartsWith(r, n \o ","))
           = Count(ReportedNames(parsed), LAMBDA m : m = n)

\* The step that ends the manifest loop of a package without a name: one
\* diagnostic, no row, no file scanned, and on to the next package.
NamelessIsSkipped ==
  (pc = "children" /\ child_i > Len(tree) /\ LastName(tree) = None) =>
    /\ stdout' = Append(stdout, diagnostic(package_paths[package_i]))
    /\ packages' = packages
    /\ files' = files /\ scanned' = scanned /\ infp' = infp
    /\ pc' = "package"
    /\ package_i' = package_i + 1

\* A package is scanned only when it has a name and passes the filters.
ScannedIsReported ==
  pc \in {"pygount", "cpp", "cpp_line", "py", "py_line", "mixed", "launch",
          "launch_line", "depends", "size"} => Reported(tree)

\* C10: the report has exactly one row for every package that has a name and
\* passes the filters, and no row for any other package; a package whose
\* manifest has no name element gets one diagnostic naming its directory, no
\* row and no scan of its files, and the packages after it are processed.
C10_OneRowPerReportedPackage ==
  /\ [](RowsAndDiagnostics /\ ReportHasOneRowEach /\ ScannedIsReported)
  /\ [][NamelessIsSkipped]_vars

\* A package without a name element, then the package foo: one diagnostic
\* and the row of foo.
C10_Witness ==
  /\ pc = "done"
  /\ args = NoArgs
  /\ parsed = << << Element("version", Some("1.0")) >>,
                 << Element("name", Some("foo")) >> >>
  /\ stdout = << diagnostic("/ws/p1"), header, "foo,0,0,1,500,0,0,0,S" >>

\* Two packages named foo with equal rows: two rows.
C10_WitnessTwice ==
  /\ pc = "done"
  /\ ReportRows = << "foo,0,0,0,0,0,0,0,S", "foo,0,0,0,0,0,0,0,S" >>

-----------------------------------------------------------------------------
(* The order of the report: up to MaxPackages packages with at most one     *)
(* file, with names that are prefixes of each other and a name with a      *)
(* character that sorts below the comma.                                   *)

SortNames == { "alpha", "zed", "ab", "abc", "ab+" }

EnvSort ==
  [argv |-> { NoArgs },
   walks |-> { Walk(k) : k \in 0..MaxPackages },
   ignore |-> {FALSE},
   parse_ok |-> {TRUE},
   manifests |-> { << Element("name", Some(n)) >> : n \in SortNames },
   pygount |-> { << >>, << PygountFile("src/a.cpp", "C++", "10") >> },
   io_ok |-> {TRUE},
   contents |-> [scan \in Scans |-> { << "int x = 0;\n" >> }]]

InitSort == InitOn(EnvSort)

NextSort == NextOn(EnvSort)

SpecSort == InitSort /\ [][NextSort]_vars

-----------------------------------------------------------------------------
(* C11 *)

\* The position in the report of the row of the package named n.
RowOf(n) == CHOOSE j \in 1..Len(ReportRows) : StartsWith(ReportRows[j], n \o ",")

\* The rows of the report are in ascending order.
RowsAscend ==
  \A i \in 1..Len(ReportRows) : \A j \in 1..Len(ReportRows) :
    i < j => ~str_lt(ReportRows[j], ReportRows[i])

\* Every character of n sorts above the comma.
AboveComma(n) == \A k \in 1..Len(n) : ord(Char(n, k)) > ord(",")

\* The names of the packages of the run, all of which are reported here.
RunNames == { LastName(parsed[i])[1] : i \in 1..Len(parsed) }

\* C11, as claimed: the rows are in ascending order of the row strings, and
\* that is the ascending order of the names, whatever the names are.
C11_RowOrderIsNameOrder ==
  pc = "done" =>
    /\ RowsAscend
    /\ \A a \in RunNames : \A b \in RunNames :
         str_lt(a, b) => RowOf(a) < RowOf(b)

\* C11, amended: the rows are in ascending order of the row strings; of two
\* names made of characters that sort above the comma the smaller has its
\* row first, in whichever order the walk found the packages.
C11_RowOrderIsNameOrderAboveComma ==
  pc = "done" =>
    /\ RowsAscend
    /\ \A a \in RunNames : \A b \in RunNames :
         (AboveComma(a) /\ AboveComma(b) /\ str_lt(a, b)) => RowOf(a) < RowOf(b)

\* zed is found before alpha, and the row of alpha is printed first.
C11_Witness ==
  /\ pc = "done"
  /\ parsed = << << Element("name", Some("zed")) >>,
                 << Element("name", Some("alpha")) >> >>
  /\ ReportRows = << "alpha,0,0,0,0,0,0,0,S", "zed,0,0,0,0,0,0,0,S" >>

\* ab is smaller than ab+, and the row of ab+ is printed first.
C11_WitnessBelowComma ==
  /\ pc = "done"
  /\ str_lt("ab", "ab+")
  /\ ReportRows = << "ab+,0,0,0,0,0,0,0,S", "ab,0,0,0,0,0,0,0,S" >>

-----------------------------------------------------------------------------
(* C12 *)

\* The line of stdout is a line of the report: the header or a row.
IsReportLine(l) == ~StartsWith(l, "Could not find package name")

\* C12: when the processing of a package fails fatally (malformed manifest,
\* unreadable file, failing read) the run ends with no line of the report
\* printed, neither the header nor a row, also when packages were completely
\* scanned before; a line of the report is printed only after every
\* discovered package has been processed.
C12_AbortPrintsNoReport ==
  /\ pc = "aborted" => \A i \in 1..Len(stdout) : ~IsReportLine(stdout[i])
  /\ (\E i \in 1..Len(stdout) : IsReportLine(stdout[i])) =>
       /\ pc = "done"
       /\ package_i = Len(package_paths) + 1
       /\ Len(parsed) = Len(package_paths)

\* The first package has its row, the manifest of the second is malformed,
\* and nothing has been printed.
C12_Witness ==
  /\ pc = "aborted"
  /\ package_i = 2
  /\ Len(parsed) = 1
  /\ packages = << "foo,0,0,1,500,0,0,0,S" >>
  /\ stdout = << >>

\* A file of the second package is unreadable, after a package that has its
\* row.
C12_WitnessUnreadable ==
  /\ pc = "aborted"
  /\ package_i = 2
  /\ Len(parsed) = 2
  /\ Len(packages) = 1
  /\ Len(cpp_files) = 1
  /\ stdout = << >>

-----------------------------------------------------------------------------
(* C13 *)

\* The positions of main() in the scan of a package, from score = 0 to the
\* row.
ScanPositions == BeforeMixed \cup AfterMixed

\* The score and every term of it are non-negative integers.
TermsNonNegative ==
  /\ score \in Nat
  /\ \A i \in 1..Len(penalties) : penalties[i] \in Nat
  /\ mixed_penalty(cpp_files, py_files) \in Nat
  /\ \A deps \in SUBSET {"roscpp", "tf", "rospy"} : depends_penalty(deps) \in Nat

\* A step of the scan of a package does not decrease the score.
ScoreGrows == (pc \in ScanPositions) => (score' >= score)

\* C13: in every state of the scan of a package the score is a non-negative
\* integer, and no step of the scan decreases it: every penalty a plugin
\* finishes to, the mixed-language term and the dependency term are
\* non-negative, whatever the file's line count and lines.
C13_ScoreNonNegativeAndMonotone ==
  /\ []TermsNonNegative
  /\ [][ScoreGrows]_vars

\* A native file counted as 0 code lines, with a line that matches, has been
\* finished, and the score is 0.
C13_Witness ==
  /\ Finished("cpp")
  /\ FinishedFile("cpp").lines = 0
  /\ SomeLine("ros::")
  /\ penalties[1] = 0
  /\ score = 0

\* The score has grown to 3 with the penalties of a native file of 2500
\* lines.
C13_WitnessGrown ==
  /\ Finished("cpp")
  /\ FinishedFile("cpp").lines = 2500
  /\ score >= 3

-----------------------------------------------------------------------------
(* C14 *)

\* The plugin objects called so far in this package.
Objects == { calls[i].obj : i \in 1..Len(calls) }

\* The calls on the object o, in their order.
CallsOf(o) == SelectSeq(calls, LAMBDA c : c.obj = o)

\* The lines of the file at position f of the scan: of a finished file the
\* lines that were read, of the file being read the open file's.
LinesOf(scan, f) ==
  IF f <= Len(ScannedBy(scan)) THEN ScannedBy(scan)[f].lines ELSE infp

\* init, then line_cb for the lines 1, 2, ... of one file, each once and in
\* order, then at most one finish, after the last line, and nothing after
\* it; all for the same file.
Lifecycle(o) ==
  LET cs == CallsOf(o)
  IN /\ cs[1].op = "init"
     /\ \A i \in 2..Len(cs) :
          /\ cs[i].scan = cs[1].scan /\ cs[i].file = cs[1].file
          /\ cs[i].op \in {"line_cb", "finish"}
          /\ cs[i].op = "line_cb" => cs[i].line = i - 1
          /\ cs[i].op = "finish" =>
               /\ i = Len(cs)
               /\ i - 2 = Len(LinesOf(cs[1].scan, cs[1].file))

\* The objects made for the file at position f of the scan.
ObjectsFor(scan, f) ==
  { o \in Objects : CallsOf(o)[1].scan = scan /\ CallsOf(o)[1].file = f }

\* A finished file had one plugin of each class of its scan's list, and
\* each has been finished.
FinishedSet(scan, f) ==
  /\ Cardinality(ObjectsFor(scan, f)) = Len(plugins_of(scan))
  /\ \A k \in 1..Len(plugins_of(scan)) :
       \E o \in ObjectsFor(scan, f) :
         /\ CallsOf(o)[1].cls = plugins_of(scan)[k].cls
         /\ CallsOf(o)[Len(CallsOf(o))].op = "finish"

\* C14: for every scanned file a fresh plugin list is made before its first
\* line is read, each plugin of the list gets line_cb for every line of the
\* file exactly once, finish is called on each exactly once and after the
\* file's last line, no plugin gets line_cb after its finish, and no plugin
\* gets a line of another file.
C14_PluginLifecycle ==
  /\ \A o \in Objects : Lifecycle(o)
  /\ \A scan \in Scans : \A f \in 1..Len(ScannedBy(scan)) : FinishedSet(scan, f)
  /\ \A k \in 1..Len(objs) : pc \in {"cpp_line", "py_line", "launch_line"} =>
       /\ objs[k] \in Objects
       /\ Len(CallsOf(objs[k])) = line_i

\* Two native files, the second of two lines, have been finished: 8 init,
\* 4 + 8 line_cb and 8 finish calls.
C14_Witness ==
  /\ pc = "cpp"
  /\ Len(ScannedBy("cpp")) = 2
  /\ Len(ScannedBy("cpp")[1].lines) = 1
  /\ Len(ScannedBy("cpp")[2].lines) = 2
  /\ Len(calls) = 28
  /\ Cardinality(Objects) = 8

-----------------------------------------------------------------------------
(* C15 *)

\* The position of the class in the plugin list of the scan.
Registry(scan, cls) ==
  CHOOSE k \in 1..Len(plugins_of(scan)) : plugins_of(scan)[k].cls = cls

\* Both calls are line_cb calls for the same file.
SameFileLines(c, d) ==
  /\ c.op = "line_cb" /\ d.op = "line_cb"
  /\ c.scan = d.scan /\ c.file = d.file

\* C15: in the scan of a file the lines are seen in file order, every plugin
\* of the list sees line i before any plugin sees line i + 1, and for one
\* line the plugins are called in the order of the list.
C15_LockStepFanOut ==
  \A q \in 1..Len(calls) :
    /\ \A p \in 1..(q - 1) :
         SameFileLines(calls[p], calls[q]) =>
           \/ calls[p].line < calls[q].line
           \/ /\ calls[p].line = calls[q].line
              /\ Registry(calls[p].scan, calls[p].cls)
                   < Registry(calls[q].scan, calls[q].cls)
    /\ (calls[q].op = "line_cb" /\ calls[q].line > 1) =>
         \A k \in 1..Len(plugins_of(calls[q].scan)) :
           \E p \in 1..(q - 1) :
             /\ SameFileLines(calls[p], calls[q])
             /\ calls[p].line = calls[q].line - 1
             /\ calls[p].cls = plugins_of(calls[q].scan)[k].cls

\* Both lines of a native file have been read and the file is not finished:
\* the four plugins saw line 1, then the four saw line 2.
C15_Witness ==
  /\ pc = "cpp_line"
  /\ Len(infp) = 2
  /\ line_i = 3
  /\ file_i = 1
  /\ Len(calls) = 12
  /\ calls[5].cls = "RosCPPFileLinePlugin" /\ calls[5].line = 1
  /\ calls[8].cls = "RosCPPActionServerPlugin" /\ calls[8].line = 1
  /\ calls[9].cls = "RosCPPFileLinePlugin" /\ calls[9].line = 2

-----------------------------------------------------------------------------
(* C16 *)

\* main() is about to hand line line_i of a native file to the plugins.
ObservesNativeLine == pc = "cpp_line" /\ line_i <= Len(infp)

\* The RosCPPUsingTFLinePlugin of the list, before and after the step.
TfPlugin == plugins[2]

TfPluginAfter == plugins'[2]

\* One line_cb of RosCPPUsingTFLinePlugin: a line with tf2_ros:: sets
\* uses_tf2_ros while it is unset, a line with tf:: sets uses_tf while it is
\* unset, and a flag that is set stays as it is.
FlagsSeparatelyObservable ==
  ObservesNativeLine =>
    /\ (~TfPlugin.uses_tf2_ros /\ Contains(infp[line_i], "tf2_ros::"))
         => TfPluginAfter.uses_tf2_ros
    /\ (~TfPlugin.uses_tf /\ Contains(infp[line_i], "tf::"))
         => TfPluginAfter.uses_tf
    /\ TfPlugin.uses_tf => TfPluginAfter.uses_tf
    /\ TfPlugin.uses_tf2_ros => TfPluginAfter.uses_tf2_ros

\* C16: in RosCPPUsingTFLinePlugin the two patterns stay separately
\* observable: while uses_tf2_ros is unset a line that contains tf2_ros::
\* sets it, whatever else the line contains and whether or not uses_tf is
\* set; a line that contains tf:: sets uses_tf while it is unset; a flag
\* that is set is not changed by further matches.
C16_TfFlagsSeparatelyObservable == [][FlagsSeparatelyObservable]_vars

-----------------------------------------------------------------------------
(* C17 *)

\* The plugin list ps after line_cb of every plugin for each of the lines.
RECURSIVE Fed(_, _)
Fed(ps, lines) ==
  IF Len(lines) = 0 THEN ps ELSE Fed(line_cb_all(ps, Head(lines)), Tail(lines))

\* The penalties of a file scanned on its own: a new plugin list of the
\* scan, the file's lines, and finish with the file's line count.
Alone(scan, lines, f) == finish_all(Fed(plugins_of(scan), lines), f)

\* C17: no plugin state leaks from one file to another: between the files
\* of a package and after the last, the penalties of every finished file
\* are those of its own lines and line count, whichever files the package
\* has, in whichever order they are scanned, and whatever the files before
\* it matched.
C17_PenaltiesOfOwnLinesOnly ==
  (pc \in Scans \cup {"mixed", "depends", "size"}) =>
    /\ \A i \in 1..Len(scanned) :
         scanned[i].penalties
           = Alone(scanned[i].scan, scanned[i].lines, scanned[i].file)
    /\ \A i \in 1..Len(scanned) : \A j \in 1..Len(scanned) :
         ( /\ scanned[i].scan = scanned[j].scan
           /\ scanned[i].lines = scanned[j].lines
           /\ scanned[i].file.lines = scanned[j].file.lines )
         => scanned[i].penalties = scanned[j].penalties

\* After a native file that matched the namespace pattern, a native file
\* without such a line has been finished with the penalty 0 for it, and
\* after them a scripting file.
C17_Witness ==
  /\ Len(scanned) = 3
  /\ scanned[1].scan = "cpp"
  /\ scanned[1].lines = << "using namespace ros;\n" >>
  /\ scanned[1].penalties = << 1, 0, 0, 0 >>
  /\ scanned[2].scan = "cpp"
  /\ scanned[2].lines = << "tf::Vector3 v;\n", "int x = 0;\n" >>
  /\ scanned[2].penalties = << 0, 2, 0, 0 >>
  /\ scanned[3].scan = "py"

-----------------------------------------------------------------------------
(* The counters of the manifest loop: one package named foo with up to     *)
(* MaxElements more elements, the same name under each of the three        *)
(* dependency tags among them.                                             *)

MaxElements == 3

CountedElements ==
  { Element("build_depend", Some("roscpp")), Element("exec_depend", Some("roscpp")),
    Element("depend", Some("roscpp")), Element("depend", Some("tf")),
    Element("version", Some("1.0")) }

EnvCounters ==
  [argv |-> { NoArgs },
   walks |-> { Walk(1) },
   ignore |-> {FALSE},
   parse_ok |-> {TRUE},
   manifests |-> { << Element("name", Some("foo")) >> \o d :
                     d \in SeqsUpTo(CountedElements, MaxElements) },
   pygount |-> { << PygountFile("src/a.cpp", "C++", "10") >> },
   io_ok |-> {TRUE},
   contents |-> [scan \in Scans |-> { << "int x = 0;\n" >> }]]

InitCounters == InitOn(EnvCounters)

NextCounters == NextOn(EnvCounters)

SpecCounters == InitCounters /\ [][NextCounters]_vars

-----------------------------------------------------------------------------
(* C18 *)

\* The number of the first k elements of the manifest t with the tag.
Tagged(t, k, tag) == Cardinality({ i \in 1..k : t[i].tag = tag })

\* The elements of the manifest the loop has been through.
ChildrenDone == IF pc = "children" THEN child_i - 1 ELSE Len(tree)

\* C18: the counters are additive per element: build_depends is the number
\* of build_depend elements plus the number of depend elements,
\* exec_depends the number of exec_depend elements plus the number of
\* depend elements, and depends the set of the distinct names of all three;
\* a name under build_depend and under depend counts 2 for build, 1 for
\* exec and 1 in the set.
C18_CountersAreAdditive ==
  (pc \in {"children", "pygount"} \cup ScanPositions) =>
    LET k == ChildrenDone
    IN /\ build_depends = Tagged(tree, k, "build_depend") + Tagged(tree, k, "depend")
       /\ exec_depends = Tagged(tree, k, "exec_depend") + Tagged(tree, k, "depend")
       /\ depends = DeclaredDependencies(SubSeq(tree, 1, k))
       /\ tree = << Element("name", Some("foo")),
                    Element("build_depend", Some("roscpp")),
                    Element("depend", Some("roscpp")) >> /\ k = 3
            => /\ build_depends = 2
               /\ exec_depends = 1
               /\ depends = { Some("roscpp") }

\* roscpp under build_depend and under depend: the row has 2 and 1.
C18_Witness ==
  /\ pc = "done"
  /\ tree = << Element("name", Some("foo")),
               Element("build_depend", Some("roscpp")),
               Element("depend", Some("roscpp")) >>
  /\ build_depends = 2
  /\ exec_depends = 1
  /\ depends = { Some("roscpp") }
  /\ packages = << "foo,2,1,1,10,0,0,0,S" >>

-----------------------------------------------------------------------------
(* C19 *)

\* Line counts around the multiples of 500 and of 1000.
WeightedCounts ==
  (0..20) \cup {499, 500, 501, 999, 1000, 1001, 1499, 1500, 1501, 1999, 2000,
                2001, 2500, 9999, 10000, 10001}

\* A RosCPPFileLinePlugin that has seen a line that matches.
NativeRosfile == RosCPPFileLinePlugin_line_cb(RosCPPFileLinePlugin, "ros::spin();\n")

\* C19: for every scripting file with a line that contains rospy,
\* RosPyFileLinePlugin finishes to ceil(line_count / 500), and to 0 when no
\* line matches; for every line count n the penalty lies between that of a
\* native file of n lines, ceil(n / 1000), and twice that.
C19_RospyPenaltyIsCeilOf500 ==
  Finished("py") =>
    IF SomeLine("rospy")
    THEN /\ penalties[1] = Ceil(FinishedFile("py").lines, 500)
         /\ \A n \in WeightedCounts :
              LET py == finish(plugins[1], File("f", n))
                  cpp == finish(NativeRosfile, File("f", n))
              IN /\ py = Ceil(n, 500)
                 /\ cpp = Ceil(n, 1000)
                 /\ cpp <= py
                 /\ py <= 2 * cpp
    ELSE penalties[1] = 0

\* A scripting file of 501 code lines with the line import rospy has been
\* finished with the penalty 2.
C19_Witness ==
  /\ Finished("py")
  /\ FinishedFile("py").lines = 501
  /\ infp = << "x = 1\n", "import rospy\n" >>
  /\ penalties = << 2, 0, 0 >>

\* A scripting file of 1200 code lines without rospy has the penalty 0.
C19_WitnessNoMatch ==
  /\ Finished("py")
  /\ FinishedFile("py").lines = 1200
  /\ ~SomeLine("rospy")
  /\ penalties[1] = 0

-----------------------------------------------------------------------------
(* The order of the lines: one package named foo with one file, of any of  *)
(* the three kinds, of up to MaxOrdered lines.                             *)

MaxOrdered == 3

OrderedCppLines ==
  { "int x = 0;\n",
    "tf::TransformListener listener;\n",
    "tf2_ros::Buffer buffer;\n",
    "tf::Vector3 v; tf2_ros::Buffer b;\n",
    "dynamic_reconfigure::Server<Cfg> srv; actionlib::SimpleActionServer<A> as;\n" }

OrderedPyLines ==
  { "x = 1\n",
    "import rospy\n",
    "import tf\n",
    "srv = actionlib.SimpleActionServer(n)\n" }

OrderedLaunchLines == { "<launch>\n", "<test pkg=\"p\" type=\"t\"/>\n" }

EnvOrder ==
  [argv |-> { NoArgs },
   walks |-> { Walk(1) },
   ignore |-> {FALSE},
   parse_ok |-> {TRUE},
   manifests |-> { << Element("name", Some("foo")) >> },
   pygount |-> { << PygountFile("src/a.cpp", "C++", "1500") >>,
                 << PygountFile("scripts/b.py", "Python", "700") >>,
                 << PygountFile("launch/c.launch", "__unknown__", "7") >> },
   io_ok |-> {TRUE},
   contents |-> [scan \in Scans |->
                   CASE scan = "cpp" -> SeqsUpTo(OrderedCppLines, MaxOrdered)
                     [] scan = "py" -> SeqsUpTo(OrderedPyLines, MaxOrdered)
                     [] scan = "launch" -> SeqsUpTo(OrderedLaunchLines, MaxOrdered)]]

InitOrder == InitOn(EnvOrder)

NextOrder == NextOn(EnvOrder)

SpecOrder == InitOrder /\ [][NextOrder]_vars

-----------------------------------------------------------------------------
(* C20 *)

\* The flags of a plugin object: its slots.
Flags(p) == DOMAIN p \ {"cls"}

\* While a file is read and when it is finished, a flag that is set stays
\* set.
Latched ==
  pc \in {"cpp_line", "py_line", "launch_line"} =>
    \A k \in 1..Len(plugins) : \A flag \in Flags(plugins[k]) :
      plugins[k][flag] => plugins'[k][flag]

\* The lines of the file just read, in every order.
Reorderings ==
  { [i \in 1..Len(infp) |-> infp[perm[i]]] : perm \in Permutations(1..Len(infp)) }

\* The lines of the file just read with one of them once more, at any place.
Repetitions ==
  { SubSeq(infp, 1, at) \o << infp[i] >> \o SubSeq(infp, at + 1, Len(infp)) :
      at \in 0..Len(infp), i \in 1..Len(infp) }

\* The penalties of the finished file are those of its lines in any order
\* and with any of them repeated.
OrderIndependent ==
  \A scan \in Scans :
    Finished(scan) =>
      \A lines \in Reorderings \cup Repetitions :
        Alone(scan, lines, FinishedFile(scan)) = penalties

\* C20: every plugin is a set of latches and its result does not depend on
\* the order of the lines: a flag that has become true is not reset by a
\* later line_cb or by finish, and for every plugin class and every file the
\* penalty is the same for every permutation of the file's lines and with
\* lines of the file repeated.
C20_LatchesAndOrderIndependence ==
  /\ []OrderIndependent
  /\ [][Latched]_vars

\* A native file of three lines, tf2_ros:: alone between a line with tf::
\* and tf2_ros:: and a line with tf:: alone, has been finished: 0 for the
\* transform plugin, as with the lines in another order.
C20_Witness ==
  /\ Finished("cpp")
  /\ infp = << "tf::Vector3 v; tf2_ros::Buffer b;\n", "tf2_ros::Buffer buffer;\n",
               "tf::TransformListener listener;\n" >>
  /\ penalties = << 2, 0, 0, 0 >>
  /\ Alone("cpp", << infp[3], infp[1], infp[2] >>, FinishedFile("cpp")) = penalties

\* The dynamic_reconfigure line comes first and two other lines after it:
\* the flags are still set when the file is finished.
C20_WitnessLatched ==
  /\ Finished("cpp")
  /\ infp = << "dynamic_reconfigure::Server<Cfg> srv; actionlib::SimpleActionServer<A> as;\n",
               "int x = 0;\n", "int x = 0;\n" >>
  /\ plugins[3].uses_dynamic_reconfigure
  /\ plugins[4].uses_action_server
  /\ penalties = << 0, 0, 2, 2 >>

====
